---------------------------- MODULE Spec2Model ----------------------------
(***************************************************************************)
(* Model of simulation/agents.py: the Household agent of the domestic      *)
(* heating agent-based model.  The household is a record of its attributes;*)
(* each method is an operator on that record, each public operation an     *)
(* action.  Random draws are inputs chosen with \E.                        *)
(***************************************************************************)
EXTENDS Integers, Sequences, FiniteSets

VARIABLES
    hh,      \* the Household object (its attributes)
    sim,     \* the model context handed to step: step_interval, annual_renovation_rate
    calib,   \* calibration of the two Weibull distributions (configuration constants)
    calls,   \* the methods invoked by the last operation, in call order
    ret,     \* what the last operation returned or raised
    draws,   \* the random draws consumed by the last operation, in order
    steps    \* number of step calls made so far

vars == <<hh, sim, calib, calls, ret, draws, steps>>

-----------------------------------------------------------------------------
(* Bounds of the model *)

MinFloorArea == 50
MaxFloorArea == 120
MaxSteps == 2
DrawResolution == 3
RateResolution == 2
CostSpread == 1
MaxHeatingSystemAge == 1
MaxPropertyValue == 4

-----------------------------------------------------------------------------
(* Enumerations of simulation.constants, as far as agents.py names them *)

PropertyType == {"FLAT", "HOUSE", "BUNGALOW", "OTHER_PROPERTY_TYPE"}

BuiltForm ==
    {"MID_TERRACE", "END_TERRACE", "SEMI_DETACHED", "DETACHED", "OTHER_BUILT_FORM"}

InsulationSegment ==
    {"SMALL_FLAT", "LARGE_FLAT",
     "SMALL_MID_TERRACE_HOUSE", "LARGE_MID_TERRACE_HOUSE",
     "SMALL_SEMI_END_TERRACE_HOUSE", "LARGE_SEMI_END_TERRACE_HOUSE",
     "SMALL_DETACHED_HOUSE", "LARGE_DETACHED_HOUSE",
     "BUNGALOW"}

\* Python's None: what a function returns when it falls off its end
None == "None"

\* An attribute that may not exist on the object: <<>> while it was never
\* assigned, <<v>> once it holds v.
Unset == <<>>
Attr(v) == <<v>>

-----------------------------------------------------------------------------
(* Household.insulation_segment *)

FLAT_AREA_THRESHOLD == 54
MID_TERRACE_AREA_THRESHOLD == 76
SEMI_END_TERRACE_AREA_THRESHOLD == 80
DETACHED_AREA_THRESHOLD == 117

\* variant: the size test written with <= instead of <
insulation_segment_le(h) ==
    IF h.property_type = "FLAT" THEN
        IF h.floor_area_sqm <= FLAT_AREA_THRESHOLD THEN "SMALL_FLAT" ELSE "LARGE_FLAT"
    ELSE IF h.property_type = "HOUSE" /\ h.built_form = "MID_TERRACE" THEN
        IF h.floor_area_sqm <= MID_TERRACE_AREA_THRESHOLD
        THEN "SMALL_MID_TERRACE_HOUSE" ELSE "LARGE_MID_TERRACE_HOUSE"
    ELSE IF h.property_type = "HOUSE" /\ h.built_form \in {"END_TERRACE", "SEMI_DETACHED"} THEN
        IF h.floor_area_sqm <= SEMI_END_TERRACE_AREA_THRESHOLD
        THEN "SMALL_SEMI_END_TERRACE_HOUSE" ELSE "LARGE_SEMI_END_TERRACE_HOUSE"
    ELSE IF h.property_type = "HOUSE" /\ h.built_form = "DETACHED" THEN
        IF h.floor_area_sqm <= DETACHED_AREA_THRESHOLD
        THEN "SMALL_DETACHED_HOUSE" ELSE "LARGE_DETACHED_HOUSE"
    ELSE IF h.property_type = "BUNGALOW" THEN "BUNGALOW"
    ELSE None

\* The property: an ordered chain of rules, first match wins; no rule matching,
\* the function body ends and Python returns None.
insulation_segment(h) ==
    IF h.property_type = "FLAT" THEN
        IF h.floor_area_sqm < FLAT_AREA_THRESHOLD THEN "SMALL_FLAT" ELSE "LARGE_FLAT"
    ELSE IF h.property_type = "HOUSE" /\ h.built_form = "MID_TERRACE" THEN
        IF h.floor_area_sqm < MID_TERRACE_AREA_THRESHOLD
        THEN "SMALL_MID_TERRACE_HOUSE" ELSE "LARGE_MID_TERRACE_HOUSE"
    ELSE IF h.property_type = "HOUSE" /\ h.built_form \in {"END_TERRACE", "SEMI_DETACHED"} THEN
        IF h.floor_area_sqm < SEMI_END_TERRACE_AREA_THRESHOLD
        THEN "SMALL_SEMI_END_TERRACE_HOUSE" ELSE "LARGE_SEMI_END_TERRACE_HOUSE"
    ELSE IF h.property_type = "HOUSE" /\ h.built_form = "DETACHED" THEN
        IF h.floor_area_sqm < DETACHED_AREA_THRESHOLD
        THEN "SMALL_DETACHED_HOUSE" ELSE "LARGE_DETACHED_HOUSE"
    ELSE IF h.property_type = "BUNGALOW" THEN "BUNGALOW"
    ELSE None

-----------------------------------------------------------------------------
(* Household.__init__ *)

HeatingSystem == {"BOILER_GAS", "BOILER_OIL", "HEAT_PUMP_AIR_SOURCE"}

HEATING_SYSTEM_FUEL ==
    [s \in HeatingSystem |->
        IF s = "BOILER_GAS" THEN "GAS"
        ELSE IF s = "BOILER_OIL" THEN "OIL"
        ELSE "ELECTRICITY"]

\* The constructor stores its arguments; heating_system_age is drawn by
\* random.randint(0, HEATING_SYSTEM_LIFETIME_YEARS) (the argument age);
\* is_renovating starts False.  renovate_heating_system and renovate_insulation
\* are not assigned by the constructor: the attributes do not exist yet.
Household(value, area, property_type, built_form, heating_system, solid, walls, windows, roof, age) ==
    [location |-> "Test Location",
     property_type |-> property_type,
     occupant_type |-> "OWNER_OCCUPIER",
     built_form |-> built_form,
     floor_area_sqm |-> area,
     property_value |-> value,
     is_solid_wall |-> solid,
     construction_year_band |-> "BUILT_1919_1944",
     is_heat_pump_suitable_archetype |-> TRUE,
     off_gas_grid |-> FALSE,
     heating_functioning |-> TRUE,
     heating_system |-> heating_system,
     heating_system_age |-> age,
     epc |-> "D",
     walls_energy_efficiency |-> walls,
     roof_energy_efficiency |-> roof,
     windows_energy_efficiency |-> windows,
     is_heat_pump_aware |-> TRUE,
     is_renovating |-> FALSE,
     renovate_heating_system |-> Unset,
     renovate_insulation |-> Unset]

\* Household.heating_fuel
heating_fuel(h) == HEATING_SYSTEM_FUEL[h.heating_system]

-----------------------------------------------------------------------------
(* Randomness and probabilities.  A value of random.random() is a rational  *)
(* n / DrawResolution with 0 <= n < DrawResolution, so it lies in [0, 1).   *)
(* A probability is a rational <<numerator, denominator>>.                  *)

Draws == {<<n, DrawResolution>> : n \in 0..(DrawResolution - 1)}

\* Household.true_with_probability: random.random() < p
true_with_probability(draw, p) == draw[1] * p[2] < p[1] * draw[2]

DAYS_PER_YEAR == 365

\* the model context: step_interval in whole days, annual_renovation_rate as a
\* numerator over RateResolution
StepIntervalDays == {1, DAYS_PER_YEAR, 2 * DAYS_PER_YEAR}

ModelContext ==
    [step_interval : StepIntervalDays, annual_renovation_rate : 0..RateResolution]

\* proba_renovate = annual_renovation_rate * (step_interval / timedelta(days=365))
proba_renovate(m) ==
    <<m.annual_renovation_rate * m.step_interval, RateResolution * DAYS_PER_YEAR>>

\* variant: a household that is renovating stays renovating
evaluate_renovation_sticky(h, m, draw) ==
    [h EXCEPT !.is_renovating =
        h.is_renovating \/ true_with_probability(draw, proba_renovate(m))]

\* Household.evaluate_renovation
evaluate_renovation(h, m, draw) ==
    [h EXCEPT !.is_renovating = true_with_probability(draw, proba_renovate(m))]

PROBA_HEATING_SYSTEM_UPDATE == <<18, 100>>
PROBA_INSULATION_UPDATE == <<33, 100>>

\* Household.decide_renovation_scope: two draws, heating system first
decide_renovation_scope(h, draw1, draw2) ==
    [h EXCEPT
        !.renovate_heating_system =
            Attr(true_with_probability(draw1, PROBA_HEATING_SYSTEM_UPDATE)),
        !.renovate_insulation =
            Attr(true_with_probability(draw2, PROBA_INSULATION_UPDATE))]

-----------------------------------------------------------------------------
(* What an operation hands back: a return value or a raised exception *)

Returned(v) == [status |-> "ok", value |-> v]
Raised(x) == [status |-> "raise", value |-> x]

-----------------------------------------------------------------------------
(* Household.get_upgradable_insulation_elements *)

\* the members of Element that get_quote_insulation_elements has a branch for
TableElements == {"WALLS", "GLAZING", "ROOF"}

\* what a caller can put in the requested set: the above and any other value
Element == TableElements \cup {"OTHER_ELEMENT"}

MAX_ENERGY_EFFICIENCY_SCORE == 5

EnergyEfficiencyGrades == 0..MAX_ENERGY_EFFICIENCY_SCORE

\* variant: the roof grade paired with GLAZING and the windows grade with ROOF
get_upgradable_insulation_elements_swapped(h) ==
    LET measures_and_grades ==
            {<<h.walls_energy_efficiency, "WALLS">>,
             <<h.windows_energy_efficiency, "ROOF">>,
             <<h.roof_energy_efficiency, "GLAZING">>}
    IN  {pair[2] : pair \in {p \in measures_and_grades : p[1] < MAX_ENERGY_EFFICIENCY_SCORE}}

\* zip of the three grades with [WALLS, ROOF, GLAZING], filtered by
\* grade < MAX_ENERGY_EFFICIENCY_SCORE, collected into a set
get_upgradable_insulation_elements(h) ==
    LET measures_and_grades ==
            {<<h.walls_energy_efficiency, "WALLS">>,
             <<h.roof_energy_efficiency, "ROOF">>,
             <<h.windows_energy_efficiency, "GLAZING">>}
    IN  {pair[2] : pair \in {p \in measures_and_grades : p[1] < MAX_ENERGY_EFFICIENCY_SCORE}}

-----------------------------------------------------------------------------
(* simulation.costs: the four cost-range tables, segment -> closed interval *)

Interval(left, right) == [left |-> left, right |-> right]

\* large segments cost more than small ones
SizeSurcharge(segment) ==
    IF segment \in {"LARGE_FLAT", "LARGE_MID_TERRACE_HOUSE",
                    "LARGE_SEMI_END_TERRACE_HOUSE", "LARGE_DETACHED_HOUSE"}
    THEN 2 ELSE 0

CostTable(base) ==
    [s \in InsulationSegment |->
        Interval(base + SizeSurcharge(s), base + SizeSurcharge(s) + CostSpread)]

CAVITY_WALL_INSULATION_COST == CostTable(10)
INTERNAL_WALL_INSULATION_COST == CostTable(20)
DOUBLE_GLAZING_UPVC_COST == CostTable(30)
LOFT_INSULATION_JOISTS_COST == CostTable(40)

\* variant: random.randrange semantics, the right end excluded
sample_interval_uniformly_open(interval) == interval.left..(interval.right - 1)

\* sample_interval_uniformly: the values random.randint(left, right) can return
sample_interval_uniformly(interval) == interval.left..interval.right

-----------------------------------------------------------------------------
(* Household.get_quote_insulation_elements *)

\* the table an element's branch reads
cost_table(h, element) ==
    IF element = "WALLS"
    THEN IF h.is_solid_wall THEN INTERNAL_WALL_INSULATION_COST
         ELSE CAVITY_WALL_INSULATION_COST
    ELSE IF element = "GLAZING" THEN DOUBLE_GLAZING_UPVC_COST
    ELSE LOFT_INSULATION_JOISTS_COST

\* the values insulation_quotes[element] can hold after the loop: the initial 0
\* unless one of the three branches assigned a sample
quote_outcomes(h, element) ==
    IF element \in TableElements
    THEN sample_interval_uniformly(cost_table(h, element)[insulation_segment(h)])
    ELSE {0}

\* what the loop body can leave in insulation_quotes[element] when the element
\* is requested; an element that is not requested has no entry (one dummy choice)
entry_outcomes(h, elements, element) ==
    IF element \in elements THEN quote_outcomes(h, element) ELSE {0}

\* The possible results of the call.  TABLE[self.insulation_segment] is a dict
\* lookup: a segment that is no key of the table (None included) raises KeyError.
\* Otherwise the dict holds one entry per requested element: its sample when a
\* branch of the loop body matched it, the initial 0 when none did.
get_quote_insulation_elements(h, elements) ==
    IF \E e \in elements \cap TableElements :
            insulation_segment(h) \notin DOMAIN cost_table(h, e)
    THEN {Raised("KeyError")}
    ELSE {Returned([e \in elements |->
                        IF e = "WALLS" THEN walls
                        ELSE IF e = "GLAZING" THEN glazing
                        ELSE IF e = "ROOF" THEN roof
                        ELSE 0]) :
            walls \in entry_outcomes(h, elements, "WALLS"),
            glazing \in entry_outcomes(h, elements, "GLAZING"),
            roof \in entry_outcomes(h, elements, "ROOF")}

-----------------------------------------------------------------------------
(* Household.step *)

\* what one run of step leaves behind: the household, the methods it called in
\* order, the draws it consumed in order, and its return value or exception
Outcome(h, called, drawn, result) ==
    [h |-> h, calls |-> called, draws |-> drawn, ret |-> result]

\* variant: the quoted elements are written back as fully upgraded
insulation_phase_upgrading(h, called, drawn) ==
    LET upgradable_elements == get_upgradable_insulation_elements(h)
        done == <<"get_upgradable_insulation_elements", "get_quote_insulation_elements">>
        upgraded == [h EXCEPT
            !.walls_energy_efficiency =
                IF "WALLS" \in upgradable_elements THEN MAX_ENERGY_EFFICIENCY_SCORE ELSE @,
            !.roof_energy_efficiency =
                IF "ROOF" \in upgradable_elements THEN MAX_ENERGY_EFFICIENCY_SCORE ELSE @,
            !.windows_energy_efficiency =
                IF "GLAZING" \in upgradable_elements THEN MAX_ENERGY_EFFICIENCY_SCORE ELSE @]
    IN  {Outcome(IF q.status = "raise" THEN h ELSE upgraded, called \o done, drawn,
                 IF q.status = "raise" THEN q ELSE Returned(None)) :
            q \in get_quote_insulation_elements(h, upgradable_elements)}

\* the body of "if self.renovate_insulation": the upgradable elements are
\* identified and quoted; the quotes are dropped, an exception propagates
insulation_phase(h, called, drawn) ==
    LET upgradable_elements == get_upgradable_insulation_elements(h)
        done == <<"get_upgradable_insulation_elements", "get_quote_insulation_elements">>
    IN  {Outcome(h, called \o done, drawn,
                 IF q.status = "raise" THEN q ELSE Returned(None)) :
            q \in get_quote_insulation_elements(h, upgradable_elements)}

\* the body of "if self.is_renovating"
scope_phase(h, called, drawn) ==
    UNION {LET h2 == decide_renovation_scope(h, d2, d3)
               called2 == called \o <<"decide_renovation_scope">>
               drawn2 == drawn \o <<d2, d3>>
           IN  IF h2.renovate_insulation = Attr(TRUE)
               THEN insulation_phase(h2, called2, drawn2)
               ELSE {Outcome(h2, called2, drawn2, Returned(None))}
           : d2 \in Draws, d3 \in Draws}

\* variant: the scope is decided on every step
step_unguarded(h, m) ==
    UNION {LET h1 == evaluate_renovation(h, m, d1)
           IN  scope_phase(h1, <<"evaluate_renovation">>, <<d1>>)
           : d1 \in Draws}

\* Household.step: every outcome the call can have, over all random draws
step(h, m) ==
    UNION {LET h1 == evaluate_renovation(h, m, d1)
           IN  IF h1.is_renovating
               THEN scope_phase(h1, <<"evaluate_renovation">>, <<d1>>)
               ELSE {Outcome(h1, <<"evaluate_renovation">>, <<d1>>, Returned(None))}
           : d1 \in Draws}

-----------------------------------------------------------------------------
(* The simulation run: a household is constructed, then stepped *)

NoResult == [op |-> "none", args |-> {}, status |-> "none", value |-> None]

Result(op, args, r) == [op |-> op, args |-> args, status |-> r.status, value |-> r.value]

DefaultCalibration == [epsilon_value |-> 1, exponent |-> "non_integer"]

StepHouseholds ==
    {Household(264000, 82, pt, "MID_TERRACE", "BOILER_GAS", FALSE, walls, 3, 3, age) :
        pt \in {"HOUSE", "OTHER_PROPERTY_TYPE"},
        walls \in {MAX_ENERGY_EFFICIENCY_SCORE - 1, MAX_ENERGY_EFFICIENCY_SCORE},
        age \in 0..MaxHeatingSystemAge}

Init ==
    /\ hh \in StepHouseholds
    /\ sim \in ModelContext
    /\ calib = DefaultCalibration
    /\ calls = <<>>
    /\ ret = NoResult
    /\ draws = <<>>
    /\ steps = 0

Step ==
    /\ steps < MaxSteps
    /\ \E o \in step(hh, sim) :
        /\ hh' = o.h
        /\ calls' = o.calls
        /\ draws' = o.draws
        /\ ret' = Result("step", {}, o.ret)
    /\ steps' = steps + 1
    /\ UNCHANGED <<sim, calib>>

Next == Step

Spec == Init /\ [][Next]_vars

-----------------------------------------------------------------------------
(* Reading insulation_segment on a constructed household *)

SegmentHouseholds ==
    {Household(264000, area, pt, bf, "BOILER_GAS", FALSE, 3, 3, 3, 0) :
        pt \in PropertyType, bf \in BuiltForm, area \in MinFloorArea..MaxFloorArea}

DefaultModelContext == [step_interval |-> 1, annual_renovation_rate |-> 0]

InitSegment ==
    /\ hh \in SegmentHouseholds
    /\ sim = DefaultModelContext
    /\ calib = DefaultCalibration
    /\ calls = <<>>
    /\ ret = NoResult
    /\ draws = <<>>
    /\ steps = 0

ReadInsulationSegment ==
    /\ calls' = <<"insulation_segment">>
    /\ ret' = Result("insulation_segment", {}, Returned(insulation_segment(hh)))
    /\ draws' = <<>>
    /\ UNCHANGED <<hh, sim, calib, steps>>

NextSegment == ReadInsulationSegment

SpecSegment == InitSegment /\ [][NextSegment]_vars

-----------------------------------------------------------------------------
(* Calling get_upgradable_insulation_elements on a constructed household *)

GradedHouseholds ==
    {Household(264000, 82, "HOUSE", "MID_TERRACE", "BOILER_GAS", FALSE,
               walls, windows, roof, 0) :
        walls \in EnergyEfficiencyGrades, windows \in EnergyEfficiencyGrades,
        roof \in EnergyEfficiencyGrades}

InitUpgradable ==
    /\ hh \in GradedHouseholds
    /\ sim = DefaultModelContext
    /\ calib = DefaultCalibration
    /\ calls = <<>>
    /\ ret = NoResult
    /\ draws = <<>>
    /\ steps = 0

\* the method reads three attributes and assigns none
GetUpgradableInsulationElements ==
    /\ calls' = <<"get_upgradable_insulation_elements">>
    /\ ret' = Result("get_upgradable_insulation_elements", {},
                     Returned(get_upgradable_insulation_elements(hh)))
    /\ draws' = <<>>
    /\ UNCHANGED <<hh, sim, calib, steps>>

NextUpgradable == GetUpgradableInsulationElements

SpecUpgradable == InitUpgradable /\ [][NextUpgradable]_vars

-----------------------------------------------------------------------------
(* Calling get_quote_insulation_elements on a constructed household *)

QuotedHouseholds ==
    {Household(264000, area, pt, bf, "BOILER_GAS", solid, 3, 3, 3, 0) :
        pt \in PropertyType, bf \in BuiltForm, area \in {MinFloorArea, MaxFloorArea},
        solid \in BOOLEAN}

InitQuote ==
    /\ hh \in QuotedHouseholds
    /\ sim = DefaultModelContext
    /\ calib = DefaultCalibration
    /\ calls = <<>>
    /\ ret = NoResult
    /\ draws = <<>>
    /\ steps = 0

GetQuoteInsulationElements(elements) ==
    /\ calls' = <<"get_quote_insulation_elements">>
    /\ \E r \in get_quote_insulation_elements(hh, elements) :
        ret' = Result("get_quote_insulation_elements", elements, r)
    /\ draws' = <<>>
    /\ UNCHANGED <<hh, sim, calib, steps>>

NextQuote == \E elements \in SUBSET Element : GetQuoteInsulationElements(elements)

SpecQuote == InitQuote /\ [][NextQuote]_vars

-----------------------------------------------------------------------------
(* Wealth percentile and renovation budget.                                *)
(*                                                                         *)
(* The two Weibull transforms compute with exp, log and a real power.  A   *)
(* real number is represented by what decides how the next operation       *)
(* treats it: its sign, and its place (ord) among the values the same      *)
(* expression yields for the other property values, larger ord meaning a   *)
(* larger number.  A percentile also carries how it compares to the        *)
(* epsilon of the inverse transform.  The Weibull parameters are           *)
(* configuration constants: a calibration fixes                            *)
(*   epsilon_value  the property value whose wealth percentile is epsilon  *)
(*                  (the percentile of property value 0 is exactly 0, so   *)
(*                  epsilon_value > 0), and                                *)
(*   exponent       whether 1 / GB_RENOVATION_BUDGET_WEIBULL_ALPHA is an   *)
(*                  odd integer, an even integer or no integer.            *)

PropertyValues == 0..MaxPropertyValue

ExponentClass == {"non_integer", "odd_integer", "even_integer"}

Calibrations == [epsilon_value : 1..MaxPropertyValue, exponent : ExponentClass]

Sgn(n) == IF n < 0 THEN -1 ELSE IF n = 0 THEN 0 ELSE 1

\* a Python float
Float(sign, ord) == [kind |-> "real", sign |-> sign, ord |-> ord]

\* a Python complex with a nonzero imaginary part
ComplexNumber == [kind |-> "complex", sign |-> 0, ord |-> 0]

\* 1 - exp(-((input_value / beta) ** alpha)) for alpha, beta > 0 and
\* input_value >= 0: 0 at 0 and increasing
get_weibull_percentile_from_value(c, input_value) ==
    [kind |-> "real",
     sign |-> Sgn(input_value),
     ord |-> input_value,
     vs_epsilon |-> Sgn(input_value - c.epsilon_value)]

\* beta * (-math.log(1 + epsilon - percentile)) ** (1 / alpha):
\*   1 + epsilon - percentile exceeds 1 exactly when percentile < epsilon;
\*   the log is positive exactly then, and the base -log(...) negative;
\*   Python's float ** float on a negative base returns a complex number for
\*   a non-integer exponent and a float for an integer one (negative for an
\*   odd exponent; positive for an even one, and then the larger the further
\*   the base is below 0); on a base >= 0 the power is increasing;
\*   beta > 0 changes neither sign nor order.
get_weibull_value_from_percentile(c, percentile) ==
    LET log_argument_vs_one == -percentile.vs_epsilon
        base_sign == -log_argument_vs_one
    IN  IF base_sign >= 0 THEN Float(base_sign, percentile.ord)
        ELSE IF c.exponent = "non_integer" THEN ComplexNumber
        ELSE IF c.exponent = "odd_integer" THEN Float(-1, percentile.ord)
        ELSE Float(1, -percentile.ord)

\* Household.wealth_percentile
wealth_percentile(h, c) == get_weibull_percentile_from_value(c, h.property_value)

\* Household.renovation_budget: HEATING_PROPORTION_OF_BUDGET = 0.1 times the
\* inverse transform; the positive factor changes neither kind, sign nor order
renovation_budget(h, c) ==
    get_weibull_value_from_percentile(c, wealth_percentile(h, c))

ValuedHouseholds ==
    {Household(pv, 82, "HOUSE", "MID_TERRACE", "BOILER_GAS", FALSE, 3, 3, 3, 0) :
        pv \in PropertyValues}

InitBudget ==
    /\ hh \in ValuedHouseholds
    /\ sim = DefaultModelContext
    /\ calib \in Calibrations
    /\ calls = <<>>
    /\ ret = NoResult
    /\ draws = <<>>
    /\ steps = 0

ReadWealthPercentile ==
    /\ calls' = <<"wealth_percentile">>
    /\ ret' = Result("wealth_percentile", {}, Returned(wealth_percentile(hh, calib)))
    /\ draws' = <<>>
    /\ UNCHANGED <<hh, sim, calib, steps>>

ReadRenovationBudget ==
    /\ calls' = <<"renovation_budget", "wealth_percentile">>
    /\ ret' = Result("renovation_budget", {}, Returned(renovation_budget(hh, calib)))
    /\ draws' = <<>>
    /\ UNCHANGED <<hh, sim, calib, steps>>

NextBudget == ReadWealthPercentile \/ ReadRenovationBudget

SpecBudget == InitBudget /\ [][NextBudget]_vars

-----------------------------------------------------------------------------
(* Properties *)

\* C1: insulation_segment is the function of (property_type, built_form,
\* floor_area_sqm) given by the segmentation table: flats split at 54 sqm
\* whatever the built form, mid-terrace houses at 76, end-terrace and
\* semi-detached houses at 80, detached houses at 117, bungalows one segment;
\* an area equal to the threshold is "large", one below it "small".
C1_SegmentFollowsTable ==
    ret.op = "insulation_segment" =>
        /\ ret.status = "ok"
        /\ hh.property_type = "FLAT" =>
            ret.value = IF hh.floor_area_sqm < 54 THEN "SMALL_FLAT" ELSE "LARGE_FLAT"
        /\ hh.property_type = "HOUSE" /\ hh.built_form = "MID_TERRACE" =>
            ret.value = IF hh.floor_area_sqm < 76 THEN "SMALL_MID_TERRACE_HOUSE"
                        ELSE "LARGE_MID_TERRACE_HOUSE"
        /\ hh.property_type = "HOUSE" /\ hh.built_form \in {"END_TERRACE", "SEMI_DETACHED"} =>
            ret.value = IF hh.floor_area_sqm < 80 THEN "SMALL_SEMI_END_TERRACE_HOUSE"
                        ELSE "LARGE_SEMI_END_TERRACE_HOUSE"
        /\ hh.property_type = "HOUSE" /\ hh.built_form = "DETACHED" =>
            ret.value = IF hh.floor_area_sqm < 117 THEN "SMALL_DETACHED_HOUSE"
                        ELSE "LARGE_DETACHED_HOUSE"
        /\ hh.property_type = "BUNGALOW" => ret.value = "BUNGALOW"

\* C1 witness: a mid-terrace house of exactly 76 sqm was classified large
C1_Witness ==
    /\ ret.op = "insulation_segment"
    /\ hh.property_type = "HOUSE" /\ hh.built_form = "MID_TERRACE"
    /\ hh.floor_area_sqm = 76
    /\ ret.value = "LARGE_MID_TERRACE_HOUSE"

\* the (property_type, built_form) combinations no segmentation rule covers
NoRuleMatches(h) ==
    ~ \/ h.property_type \in {"FLAT", "BUNGALOW"}
      \/ /\ h.property_type = "HOUSE"
         /\ h.built_form \in {"MID_TERRACE", "END_TERRACE", "SEMI_DETACHED", "DETACHED"}

\* C2: reading insulation_segment on a household no rule matches signals an
\* error; it never returns None or a default.
C2_UnmatchedSignalsError ==
    ret.op = "insulation_segment" /\ NoRuleMatches(hh) => ret.status = "raise"

\* the table the claim selects for an element
ClaimedTable(h, element) ==
    IF element = "WALLS" /\ h.is_solid_wall THEN INTERNAL_WALL_INSULATION_COST
    ELSE IF element = "WALLS" THEN CAVITY_WALL_INSULATION_COST
    ELSE IF element = "GLAZING" THEN DOUBLE_GLAZING_UPVC_COST
    ELSE LOFT_INSULATION_JOISTS_COST

\* C3: get_quote_insulation_elements fails with an error whenever a requested
\* element is covered by no cost table or the household's segment has no entry
\* in the element's table; it never returns a mapping for such a request.
C3_NoDefaultedCost ==
    /\ ret.op = "get_quote_insulation_elements"
    /\ \E e \in ret.args :
        \/ e \notin {"WALLS", "GLAZING", "ROOF"}
        \/ insulation_segment(hh) \notin DOMAIN ClaimedTable(hh, e)
    => ret.status = "raise"

\* C4: for a household with a defined segment and a request of walls, glazing
\* and roof elements, the result has exactly one entry per requested element,
\* each within [low, high] of its table's entry for the segment (walls priced
\* from the internal-wall table for a solid wall, the cavity-wall table
\* otherwise); and for every element both low and high are possible quotes.
C4_QuotesWithinRange ==
    insulation_segment(hh) \in InsulationSegment =>
        /\ ret.op = "get_quote_insulation_elements"
           /\ ret.args \subseteq {"WALLS", "GLAZING", "ROOF"} =>
                /\ ret.status = "ok"
                /\ DOMAIN ret.value = ret.args
                /\ \A e \in ret.args :
                    LET range == ClaimedTable(hh, e)[insulation_segment(hh)]
                    IN  range.left <= ret.value[e] /\ ret.value[e] <= range.right
        /\ \A e \in {"WALLS", "GLAZING", "ROOF"} :
            LET range == ClaimedTable(hh, e)[insulation_segment(hh)]
            IN  \A cost \in {range.left, range.right} :
                    ENABLED (GetQuoteInsulationElements({e}) /\ ret'.value[e] = cost)

\* C4 witness: a solid-wall household was quoted the low end for its walls and
\* the high end for its roof
C4_Witness ==
    /\ ret.op = "get_quote_insulation_elements"
    /\ ret.status = "ok"
    /\ ret.args = {"WALLS", "GLAZING", "ROOF"}
    /\ hh.is_solid_wall
    /\ ret.value["WALLS"] = INTERNAL_WALL_INSULATION_COST[insulation_segment(hh)].left
    /\ ret.value["ROOF"] = LOFT_INSULATION_JOISTS_COST[insulation_segment(hh)].right

\* the order in which a step that goes all the way calls the methods
FullStepOrder ==
    <<"evaluate_renovation", "decide_renovation_scope",
      "get_upgradable_insulation_elements", "get_quote_insulation_elements">>

\* C5: a step calls evaluate_renovation first; decide_renovation_scope next,
\* if and only if that evaluation left is_renovating true; then element
\* identification and quoting, if and only if is_renovating is true and that
\* scope decision (made from this step's draws) set renovate_insulation true.
\* A step whose renovation draw is negative consumes no further draw.
C5_StepOrderAndGuards ==
    ret.op = "step" =>
        /\ Len(calls) >= 1
        /\ calls = SubSeq(FullStepOrder, 1, Len(calls))
        /\ Len(calls) >= 2 <=> hh.is_renovating
        /\ Len(calls) = 4 <=> hh.is_renovating /\ hh.renovate_insulation = <<TRUE>>
        /\ Len(calls) # 3
        /\ Len(draws) = IF hh.is_renovating THEN 3 ELSE 1
        /\ hh.is_renovating =>
            /\ hh.renovate_heating_system = <<draws[2][1] * 100 < 18 * draws[2][2]>>
            /\ hh.renovate_insulation = <<draws[3][1] * 100 < 33 * draws[3][2]>>

\* C5 witness: a step went through evaluation, scope decision and quoting
C5_Witness ==
    /\ ret.op = "step"
    /\ calls = FullStepOrder
    /\ hh.is_renovating /\ hh.renovate_insulation = <<TRUE>>

\* C6: after every step, the first included, both scope flags have a value,
\* and after a step that left is_renovating false neither flag is true.
C6_ScopeFlagsReflectLastStep ==
    ret.op = "step" =>
        /\ hh.renovate_heating_system \in {<<TRUE>>, <<FALSE>>}
        /\ hh.renovate_insulation \in {<<TRUE>>, <<FALSE>>}
        /\ ~hh.is_renovating =>
            /\ hh.renovate_heating_system # <<TRUE>>
            /\ hh.renovate_insulation # <<TRUE>>

\* the attributes a step is not meant to touch
FrameAttributes ==
    {"location", "property_type", "occupant_type", "built_form", "floor_area_sqm",
     "property_value", "is_solid_wall", "construction_year_band",
     "is_heat_pump_suitable_archetype", "off_gas_grid", "heating_functioning",
     "heating_system", "heating_system_age", "epc", "walls_energy_efficiency",
     "roof_energy_efficiency", "windows_energy_efficiency", "is_heat_pump_aware"}

\* C7: a step changes no attribute of the household other than is_renovating
\* and the two scope flags: the efficiency grades stay as constructed even when
\* quotes are generated, and so insulation_segment and heating_fuel are
\* constant over a run.
C7_StepFrame ==
    [][/\ \A a \in FrameAttributes : hh'[a] = hh[a]
       /\ DOMAIN hh' = DOMAIN hh
       /\ insulation_segment(hh') = insulation_segment(hh)
       /\ heating_fuel(hh') = heating_fuel(hh)]_vars

\* C7 witness: a step generated quotes for a household with an upgradable wall
C7_Witness ==
    /\ ret.op = "step"
    /\ ret.status = "ok"
    /\ Len(calls) = 4
    /\ hh.walls_energy_efficiency < 5

\* C8: is_renovating is false at construction; after a step it is exactly
\* draw < annual_renovation_rate * step_interval / 365 days for that step's
\* own draw, a value in [0, 1), whatever is_renovating was before; with an
\* annual rate of 0 it is false after every step.
C8_RenovationDrawDecides ==
    /\ steps = 0 => ~hh.is_renovating
    /\ ret.op = "step" =>
        /\ 0 <= draws[1][1] /\ draws[1][1] < draws[1][2]
        /\ hh.is_renovating <=>
            draws[1][1] * RateResolution * 365
                < sim.annual_renovation_rate * sim.step_interval * draws[1][2]
        /\ sim.annual_renovation_rate = 0 => ~hh.is_renovating

\* C8 witness: a household that renovated in an earlier step (its scope flags
\* are set) is idle after a later one
C8_Witness ==
    /\ ret.op = "step"
    /\ steps >= 2
    /\ ~hh.is_renovating
    /\ hh.renovate_insulation # <<>>

\* C9: get_upgradable_insulation_elements returns exactly the elements whose own
\* grade is below 5 (walls grade for WALLS, roof grade for ROOF, windows grade
\* for GLAZING), and the call leaves the household as it was.
C9_UpgradableBelowMaxGrade ==
    /\ [](ret.op = "get_upgradable_insulation_elements" =>
            /\ ret.status = "ok"
            /\ "WALLS" \in ret.value <=> hh.walls_energy_efficiency < 5
            /\ "ROOF" \in ret.value <=> hh.roof_energy_efficiency < 5
            /\ "GLAZING" \in ret.value <=> hh.windows_energy_efficiency < 5
            /\ ret.value \subseteq {"WALLS", "ROOF", "GLAZING"})
    /\ [][hh' = hh]_vars

\* C9 witness: with the roof at grade 4 and walls and windows at grade 5 the
\* call returned the roof alone
C9_Witness ==
    /\ ret.op = "get_upgradable_insulation_elements"
    /\ hh.walls_energy_efficiency = 5
    /\ hh.roof_energy_efficiency = 4
    /\ hh.windows_energy_efficiency = 5
    /\ ret.value = {"ROOF"}

\* a <= b for two floats produced by the same expression
FloatLeq(a, b) == a.sign < b.sign \/ (a.sign = b.sign /\ a.ord <= b.ord)

\* the household with another property value
WithPropertyValue(h, value) == [h EXCEPT !.property_value = value]

\* C10: renovation_budget is a non-negative real number for every property
\* value, and a household with a lower property value has a wealth percentile
\* and a renovation budget no higher than this one's.
C10_BudgetMonotoneAndWellDefined ==
    ret.op = "renovation_budget" =>
        /\ ret.value.kind = "real"
        /\ ret.value.sign >= 0
        /\ \A lower \in PropertyValues :
            lower < hh.property_value =>
                LET poorer == WithPropertyValue(hh, lower)
                IN  /\ renovation_budget(poorer, calib).kind = "real"
                    /\ renovation_budget(poorer, calib).sign >= 0
                    /\ FloatLeq(wealth_percentile(poorer, calib),
                                wealth_percentile(hh, calib))
                    /\ FloatLeq(renovation_budget(poorer, calib), ret.value)

=============================================================================
